---- MODULE Spec2Model ----
(***************************************************************************)
(* State-machine model of the car-listing web client (Next.js pages and    *)
(* components) and of the listing store / query API it talks to.           *)
(*                                                                         *)
(* Its subsystems share the module, each with its own specifications:      *)
(*   SpecAlerts  : 'price-alerts' in local storage, the alerts page and    *)
(*                 the price panel (PriceHistory) of a detail page, for    *)
(*                 the alerts of two cars                                  *)
(*   SpecTrigger : the same pages for one car, every price and condition   *)
(*   SpecFav     : 'car-favorites' in local storage, the detail pages'     *)
(*                 favorite button and the favorites page                  *)
(*   SpecAI      : the Claude analysis and the AI features panel of a      *)
(*                 detail page                                             *)
(*   SpecScraper : the scraper control's runs and status polling           *)
(*                 (SpecScraperLive: requests answered, timers fire)       *)
(*   SpecStore   : the listing store under the ingestion's upserts         *)
(*   SpecIngest  : the ingestion worker's runs over the marketplace's      *)
(*                 pages (SpecIngestLive: every page fetch is answered)    *)
(*   SpecQuery   : the home page's list requests against the query API     *)
(*   SpecHome    : the home page with its filter panel (SpecHomeLive: the  *)
(*                 effects of a render run, every request is answered)     *)
(***************************************************************************)
EXTENDS Integers, Sequences, FiniteSets, TLC

(***************************************************************************)
(* Bounds of the model.                                                    *)
(***************************************************************************)
\* largest number of alerts kept in a list (stored or in memory)
MaxAlerts == 2
\* last value of the millisecond clock read by Date.now()
MaxClock == 2
\* largest number of ids in the stored favorites list
MaxFavs == 2
\* largest number of fetchFavoriteCars calls in flight
MaxBatches == 2
\* number of external ids the marketplace shows to the ingestion
MaxStoreIds == 2
\* last value of the clock the store stamps first_seen / last_seen with
MaxStoreClock == 2
\* number of listings in the largest store the home page queries
MaxListings == 13
\* largest number of list requests of the home page in flight
MaxInFlight == 2
\* largest number of changes the user makes in the filter panel
MaxPanelMoves == 2
\* features of the AI panel's list that are modelled (the first ones)
MaxFeatures == 3
\* analysis requests of one feature in flight at a time
MaxFeatureRequests == 2
\* insights loops started and not yet finished
MaxPolls == 1
\* largest maximum record count of an ingestion run
MaxRunRecords == 3
\* records on one page of the marketplace
MaxPageSize == 2
\* status requests of the scraper control in flight at a time
MaxStatusInFlight == 2

(***************************************************************************)
(* Values shared by the pages.                                             *)
(***************************************************************************)
\* listing ids (external_id) the client can address
CarIds == {1, 2}
\* browser tabs that can show a detail page
Tabs == {1, 2}
\* `price: number | null`: the null price of a listing
Null == -1
\* `car` is null / carDetails has no entry for the id
NoCar == -2
\* prices a listing can carry, null included
Prices == {Null, 1, 2, 3}
\* PriceAlert.triggeredAt is optional and absent on every alert the client builds
NoTime == 0

Range(s) == {s[i] : i \in DOMAIN s}

\* `car.price || 0`: null and 0 both become 0
PriceOrZero(price) == IF price = Null \/ price = 0 THEN 0 ELSE price

VARIABLES
  \* ---- local storage
  priceAlerts,     \* the list stored under 'price-alerts'
  \* ---- the clock
  now,             \* Date.now()
  \* ---- alerts page (AlertsPage)
  apAlerts,        \* useState alerts
  apLoading,       \* useState loading
  apCarDetails,    \* useState carDetails: car id -> price, NoCar when no entry
  \* ---- detail pages (CarDetail), one per browser tab, each with its price
  \* ---- panel (PriceHistory); every variable is a function of the tab
  dpCarId,         \* params.id
  dpCar,           \* useState car: NoCar for null, else the car's price
  dpLoading,       \* useState loading
  dpIsFavorite,    \* useState isFavorite
  phAlerts,        \* PriceHistory useState alerts (the panel is mounted iff dpCar # NoCar)
  \* ---- local storage
  carFavorites,    \* the list stored under 'car-favorites'
  \* ---- favorites page (FavoritesPage)
  fpFavorites,     \* useState favorites
  fpFavoriteCars,  \* useState favoriteCars, as the ids of the cars held
  fpLoading,       \* useState loading
  fpBatches,       \* the fetchFavoriteCars calls awaiting Promise.all, oldest first
  \* ---- listing store (server)
  store,           \* the stored listings, in insertion order
  storeNow,        \* the clock the store reads at an upsert
  \* ---- ingestion worker (server)
  runState,        \* "idle" before the first run, "running", then how the
                   \* last run ended: "done" or "failed"
  runMax,          \* the maximum record count of the run
  runFetched,      \* records the run has upserted
  runPage,         \* number of the next page the run fetches
  \* ---- filter panel (CarFilters) and home page (Home)
  cfFilters,       \* the panel's useState values, as the record it reports
  cfShowAdvanced,  \* the panel's useState showAdvanced
  cfMoves,         \* number of changes the user made in the panel so far
  hpFilters,       \* useState filters
  hpSortBy,        \* useState sortBy
  hpCurrentPage,   \* useState currentPage
  hpCars,          \* useState cars
  hpTotalCars,     \* useState totalCars
  hpLoading,       \* useState loading
  hpRenderDue,     \* a user event has set state and Home's re-render, which
                   \* React runs before any other event, has yet to run
  hpRequests,      \* the parameters of the list requests in flight, oldest first
  hpOlder,         \* how many of the requests in flight were issued before
                   \* the request whose response cars and totalCars hold
  \* ---- Claude analysis and AI features panel (AIFeaturesPanel) of the
  \* ---- detail page in tab AiTab
  dpAnalysis,      \* CarDetail useState analysis: NoData for null
  dpAnalysisLoading, \* CarDetail useState analysisLoading
  dpAnalyzeRequests, \* number of analyze requests in flight
  aiActiveFeature, \* useState activeFeature: NoFeature for null
  aiFeaturesData,  \* useState featuresData: feature id -> data, NoData when no entry
  aiLoadingFeatures, \* useState loadingFeatures, as the set of its keys holding true
  aiFeatureRequests, \* feature id -> number of its analysis requests in flight
  aiFullRequests,  \* number of full-analysis dispatches in flight
  aiPolls,         \* the insights loops started: 0 while the 3 s timer is
                   \* pending, else the index of the feature whose insights
                   \* request is in flight
  aiConsole,       \* the subject of the last console.error line of these handlers
  \* ---- scraper control (ScraperControl)
  scLoading,       \* useState loading
  scScraperRunning, \* useState scraperRunning
  scTrigger,       \* number of trigger requests (POST run) in flight
  scPolling,       \* the 5 s status polling interval is set
  scTicks,         \* ticks of the polling interval since it was set
  scStatusRequests, \* number of status requests in flight
  scTest,          \* number of test requests (GET scrapfly) in flight
  scStatusTimers   \* number of 10 s timers of testScrapfly pending

alertVars == <<priceAlerts, now, apAlerts, apLoading, apCarDetails, phAlerts>>
detailVars == <<dpCarId, dpCar, dpLoading, dpIsFavorite>>
favVars == <<carFavorites, fpFavorites, fpFavoriteCars, fpLoading, fpBatches>>

ingestVars == <<runState, runMax, runFetched, runPage>>
storeVars == <<store, storeNow, ingestVars>>
homeVars == <<cfFilters, cfShowAdvanced, cfMoves, hpFilters, hpSortBy, hpCurrentPage,
              hpCars, hpTotalCars, hpLoading, hpRenderDue, hpRequests, hpOlder>>
apiVars == <<storeVars, homeVars>>
aiVars == <<dpAnalysis, dpAnalysisLoading, dpAnalyzeRequests, aiActiveFeature,
            aiFeaturesData, aiLoadingFeatures, aiFeatureRequests, aiFullRequests, aiPolls,
            aiConsole>>

scraperVars == <<scLoading, scScraperRunning, scTrigger, scPolling, scTicks, scStatusRequests,
                 scTest, scStatusTimers>>

vars == <<alertVars, detailVars, favVars, apiVars, aiVars, scraperVars>>

(***************************************************************************)
(* Alerts: pure functions.                                                 *)
(***************************************************************************)
Conditions == {"below", "above"}

\* strings the user can leave in the target-price input
AlertInputs == {"", "abc", "0", "-5", "2"}

\* parseFloat on those strings: NaN for text that starts with no number
parseFloat(s) ==
  CASE s = "2"  -> [nan |-> FALSE, val |-> 2]
    [] s = "0"  -> [nan |-> FALSE, val |-> 0]
    [] s = "-5" -> [nan |-> FALSE, val |-> -5]
    [] OTHER    -> [nan |-> TRUE, val |-> 0]

\* AlertsPage.getAlertStatus
getAlertStatus(alert, carDetails) ==
  IF carDetails[alert.carId] = NoCar
  THEN [status |-> "unknown", triggered |-> FALSE]
  ELSE LET currentPrice == PriceOrZero(carDetails[alert.carId])
           triggered == IF alert.condition = "below"
                        THEN currentPrice <= alert.targetPrice
                        ELSE currentPrice >= alert.targetPrice
       IN [status |-> IF triggered THEN "triggered" ELSE "active",
           triggered |-> triggered]

\* PriceHistory: isTriggered of a rendered alert
isTriggered(alert, currentPrice) ==
  IF alert.condition = "below"
  THEN currentPrice <= alert.targetPrice
  ELSE currentPrice >= alert.targetPrice

\* CarDetail: the currentPrice prop handed to PriceHistory
currentPriceProp(car) == PriceOrZero(car)

\* alerts.map(alert => alert.id === alertId ? {...alert, isActive: !alert.isActive} : alert)
toggleIn(alerts, alertId) ==
  [i \in DOMAIN alerts |->
     IF alerts[i].id = alertId
     THEN [alerts[i] EXCEPT !.isActive = ~alerts[i].isActive]
     ELSE alerts[i]]

\* alerts.filter(alert => alert.id !== alertId)
deleteIn(alerts, alertId) == SelectSeq(alerts, LAMBDA a : a.id # alertId)

\* PriceHistory.saveAlerts: the stored list with this car's alerts replaced
phSaved(stored, carId, updatedAlerts) ==
  SelectSeq(stored, LAMBDA a : a.carId # carId) \o updatedAlerts

(***************************************************************************)
(* Alerts page.                                                            *)
(***************************************************************************)
\* mount: loadAlerts up to its await (setLoading(true); setAlerts(stored))
APLoadAlerts ==
  /\ apAlerts' = priceAlerts
  /\ apLoading' = TRUE
  /\ apCarDetails' = [c \in CarIds |-> NoCar]
  /\ UNCHANGED <<priceAlerts, now, phAlerts, detailVars, favVars, apiVars, aiVars, scraperVars>>

\* loadAlerts as it would be if evaluating the status stamped the alerts that
\* the fetched prices trigger (triggeredAt written back to storage)
APLoadDone_stamping(resp) ==
  /\ apLoading
  /\ apCarDetails' = [c \in CarIds |->
        IF \E i \in DOMAIN apAlerts : apAlerts[i].carId = c
        THEN resp[c] ELSE NoCar]
  /\ apLoading' = FALSE
  /\ apAlerts' = [i \in DOMAIN apAlerts |->
        IF getAlertStatus(apAlerts[i], apCarDetails').triggered
        THEN [apAlerts[i] EXCEPT !.triggeredAt = now]
        ELSE apAlerts[i]]
  /\ priceAlerts' = apAlerts'
  /\ UNCHANGED <<now, phAlerts, detailVars, favVars, apiVars, aiVars, scraperVars>>

\* loadAlerts after Promise.all: one response per distinct carId, each either
\* ok with the listing's price of that moment or failed / non-2xx (NoCar)
APLoadDone(resp) ==
  /\ apLoading
  /\ apCarDetails' = [c \in CarIds |->
        IF \E i \in DOMAIN apAlerts : apAlerts[i].carId = c
        THEN resp[c] ELSE NoCar]
  /\ apLoading' = FALSE
  /\ UNCHANGED <<priceAlerts, now, apAlerts, phAlerts, detailVars, favVars, apiVars, aiVars, scraperVars>>

\* AlertsPage.saveAlerts
APSaveAlerts(updatedAlerts) ==
  /\ priceAlerts' = updatedAlerts
  /\ apAlerts' = updatedAlerts

APToggleAlert(alertId) ==
  /\ ~apLoading
  /\ \E i \in DOMAIN apAlerts : apAlerts[i].id = alertId
  /\ APSaveAlerts(toggleIn(apAlerts, alertId))
  /\ UNCHANGED <<now, apLoading, apCarDetails, phAlerts, detailVars, favVars, apiVars, aiVars, scraperVars>>

APDeleteAlert(alertId) ==
  /\ ~apLoading
  /\ \E i \in DOMAIN apAlerts : apAlerts[i].id = alertId
  /\ APSaveAlerts(deleteIn(apAlerts, alertId))
  /\ UNCHANGED <<now, apLoading, apCarDetails, phAlerts, detailVars, favVars, apiVars, aiVars, scraperVars>>

APClearAllAlerts ==
  /\ ~apLoading
  /\ Len(apAlerts) > 0
  /\ APSaveAlerts(<<>>)
  /\ UNCHANGED <<now, apLoading, apCarDetails, phAlerts, detailVars, favVars, apiVars, aiVars, scraperVars>>

(***************************************************************************)
(* Scraper control (ScraperControl).                                       *)
(***************************************************************************)
\* ticks of the 5 s polling interval within the 120 s of the stop timer
POLL_TICKS == 24

\* the component is just mounted
InitScraper ==
  /\ scLoading = FALSE
  /\ scScraperRunning = FALSE
  /\ scTrigger = 0
  /\ scPolling = FALSE
  /\ scTicks = 0
  /\ scStatusRequests = 0
  /\ scTest = 0
  /\ scStatusTimers = 0

\* a click on the run button (disabled while loading or scraperRunning):
\* runScraper up to its fetch
SCRunScraper ==
  /\ ~(scLoading \/ scScraperRunning)
  /\ scScraperRunning' = TRUE
  /\ scLoading' = TRUE
  /\ scTrigger' = scTrigger + 1
  /\ UNCHANGED <<scTest, scStatusTimers, scPolling, scTicks, scStatusRequests,
                 alertVars, detailVars, favVars, apiVars, aiVars>>

\* runScraper from the response of its fetch on: a 2xx ("ok") sets the
\* polling interval and the stop timer, a thrown fetch ("failed") resets
\* scraperRunning, a non-2xx ("status") does neither; finally resets loading
SCTriggerDone(outcome) ==
  /\ scTrigger > 0
  /\ scTrigger' = scTrigger - 1
  /\ scPolling' = IF outcome = "ok" THEN TRUE ELSE scPolling
  /\ scTicks' = IF outcome = "ok" THEN 0 ELSE scTicks
  /\ scScraperRunning' = IF outcome = "failed" THEN FALSE ELSE scScraperRunning
  /\ scLoading' = FALSE
  /\ UNCHANGED <<scTest, scStatusTimers, scStatusRequests, alertVars, detailVars, favVars, apiVars, aiVars>>

\* the polling interval ticks: fetchStatus sends a status request
SCPollTick ==
  /\ scPolling
  /\ scTicks < POLL_TICKS
  /\ scStatusRequests < MaxStatusInFlight
  /\ scTicks' = scTicks + 1
  /\ scStatusRequests' = scStatusRequests + 1
  /\ UNCHANGED <<scTest, scStatusTimers, scLoading, scScraperRunning, scTrigger, scPolling,
                 alertVars, detailVars, favVars, apiVars, aiVars>>

\* a status request completes; fetchStatus touches none of the run's state
SCStatusDone ==
  /\ scStatusRequests > 0
  /\ scStatusRequests' = scStatusRequests - 1
  /\ UNCHANGED <<scTest, scStatusTimers, scLoading, scScraperRunning, scTrigger, scPolling, scTicks,
                 alertVars, detailVars, favVars, apiVars, aiVars>>

\* the stop timer fires, 120 s after the 2xx: at the interval's last tick,
\* before or after it
SCStopPolling ==
  /\ scPolling
  /\ scTicks >= POLL_TICKS - 1
  /\ scPolling' = FALSE
  /\ scScraperRunning' = FALSE
  /\ UNCHANGED <<scTest, scStatusTimers, scLoading, scTrigger, scTicks, scStatusRequests,
                 alertVars, detailVars, favVars, apiVars, aiVars>>

\* a click on the test button (disabled while loading): testScrapfly up to
\* its fetch
SCTestScrapfly ==
  /\ ~scLoading
  /\ scLoading' = TRUE
  /\ scTest' = scTest + 1
  /\ UNCHANGED <<scScraperRunning, scTrigger, scPolling, scTicks, scStatusRequests,
                 scStatusTimers, alertVars, detailVars, favVars, apiVars, aiVars>>

\* testScrapfly from the response of its fetch on: a 2xx sets a 10 s timer
\* for fetchStatus; finally resets loading
SCTestDone(outcome) ==
  /\ scTest > 0
  /\ outcome = "ok" => scStatusTimers < MaxStatusInFlight
  /\ scTest' = scTest - 1
  /\ scStatusTimers' = IF outcome = "ok" THEN scStatusTimers + 1 ELSE scStatusTimers
  /\ scLoading' = FALSE
  /\ UNCHANGED <<scScraperRunning, scTrigger, scPolling, scTicks, scStatusRequests,
                 alertVars, detailVars, favVars, apiVars, aiVars>>

\* a 10 s timer of testScrapfly fires: fetchStatus sends a status request
SCStatusTimer ==
  /\ scStatusTimers > 0
  /\ scStatusRequests < MaxStatusInFlight
  /\ scStatusTimers' = scStatusTimers - 1
  /\ scStatusRequests' = scStatusRequests + 1
  /\ UNCHANGED <<scLoading, scScraperRunning, scTrigger, scPolling, scTicks, scTest,
                 alertVars, detailVars, favVars, apiVars, aiVars>>

\* the refresh button, the mount effect or its 30 s interval: fetchStatus
\* sends a status request
SCFetchStatus ==
  /\ scStatusRequests < MaxStatusInFlight
  /\ scStatusRequests' = scStatusRequests + 1
  /\ UNCHANGED <<scLoading, scScraperRunning, scTrigger, scPolling, scTicks, scTest,
                 scStatusTimers, alertVars, detailVars, favVars, apiVars, aiVars>>

(***************************************************************************)
(* Claude analysis and AI features panel of the detail page in tab AiTab.  *)
(***************************************************************************)
AiTab == 1

\* no entry in featuresData / analysis null
NoData == 0

\* activeFeature null
NoFeature == ""

\* the body of an analysis response (POST) and of an insights response (GET)
AnalysisData == 1
InsightsData == 2

AI_FEATURES == <<"gem", "photo", "description", "negotiation", "vin", "market",
                 "sentiment", "comparison", "maintenance", "investment">>

FeatureList == SubSeq(AI_FEATURES, 1, MaxFeatures)
FeatureIds == Range(FeatureList)

\* the state of a freshly mounted CarDetail / AIFeaturesPanel; what the
\* unmounted instance still has in flight no longer reaches any state
AIMount ==
  /\ dpAnalysis' = NoData
  /\ dpAnalysisLoading' = FALSE
  /\ dpAnalyzeRequests' = 0
  /\ aiActiveFeature' = NoFeature
  /\ aiFeaturesData' = [f \in FeatureIds |-> NoData]
  /\ aiLoadingFeatures' = {}
  /\ aiFeatureRequests' = [f \in FeatureIds |-> 0]
  /\ aiFullRequests' = 0
  /\ aiPolls' = <<>>
  /\ aiConsole' = ""

\* a click on 'Analyser avec Claude' (disabled while analysisLoading)
DPHandleAnalyze ==
  /\ dpCar[AiTab] # NoCar
  /\ ~dpAnalysisLoading
  /\ dpAnalysisLoading' = TRUE
  /\ dpAnalyzeRequests' = dpAnalyzeRequests + 1
  /\ UNCHANGED <<dpAnalysis, aiActiveFeature, aiFeaturesData, aiLoadingFeatures,
                 aiFeatureRequests, aiFullRequests, aiPolls, aiConsole,
                 alertVars, detailVars, favVars, apiVars, scraperVars>>

\* the analyze request completes (~ok: non-2xx or network error)
DPAnalyzeDone(ok) ==
  /\ dpAnalyzeRequests > 0
  /\ dpAnalyzeRequests' = dpAnalyzeRequests - 1
  /\ dpAnalysis' = IF ok THEN AnalysisData ELSE dpAnalysis
  /\ aiConsole' = IF ok THEN aiConsole ELSE "analyze"
  /\ dpAnalysisLoading' = FALSE
  /\ UNCHANGED <<aiActiveFeature, aiFeaturesData, aiLoadingFeatures,
                 aiFeatureRequests, aiFullRequests, aiPolls,
                 alertVars, detailVars, favVars, apiVars, scraperVars>>

\* a click on the card of a feature that has data (hasData): it is shown
AISelectFeature(f) ==
  /\ dpCar[AiTab] # NoCar
  /\ f \notin aiLoadingFeatures
  /\ aiFeaturesData[f] # NoData
  /\ aiActiveFeature' = f
  /\ UNCHANGED <<dpAnalysis, dpAnalysisLoading, dpAnalyzeRequests, aiFeaturesData,
                 aiLoadingFeatures, aiFeatureRequests, aiFullRequests, aiPolls,
                 aiConsole, alertVars, detailVars, favVars, apiVars, scraperVars>>

\* a click on the card of a feature without data: triggerFeatureAnalysis up
\* to its fetch
AITriggerFeatureAnalysis(f) ==
  /\ dpCar[AiTab] # NoCar
  /\ f \notin aiLoadingFeatures
  /\ aiFeaturesData[f] = NoData
  /\ aiFeatureRequests[f] < MaxFeatureRequests
  /\ aiLoadingFeatures' = aiLoadingFeatures \cup {f}
  /\ aiFeatureRequests' = [aiFeatureRequests EXCEPT ![f] = @ + 1]
  /\ UNCHANGED <<dpAnalysis, dpAnalysisLoading, dpAnalyzeRequests, aiActiveFeature,
                 aiFeaturesData, aiFullRequests, aiPolls, aiConsole,
                 alertVars, detailVars, favVars, apiVars, scraperVars>>

\* a triggerFeatureAnalysis that shows the feature whatever the response
AIFeatureDone_activating(f, ok) ==
  /\ aiFeatureRequests[f] > 0
  /\ aiFeatureRequests' = [aiFeatureRequests EXCEPT ![f] = @ - 1]
  /\ aiFeaturesData' = IF ok THEN [aiFeaturesData EXCEPT ![f] = AnalysisData]
                       ELSE aiFeaturesData
  /\ aiActiveFeature' = f
  /\ aiConsole' = IF ok THEN aiConsole ELSE f
  /\ aiLoadingFeatures' = aiLoadingFeatures \ {f}
  /\ UNCHANGED <<dpAnalysis, dpAnalysisLoading, dpAnalyzeRequests, aiFullRequests,
                 aiPolls, alertVars, detailVars, favVars, apiVars, scraperVars>>

\* triggerFeatureAnalysis from the response of its fetch on
AIFeatureDone(f, ok) ==
  /\ aiFeatureRequests[f] > 0
  /\ aiFeatureRequests' = [aiFeatureRequests EXCEPT ![f] = @ - 1]
  /\ aiFeaturesData' = IF ok THEN [aiFeaturesData EXCEPT ![f] = AnalysisData]
                       ELSE aiFeaturesData
  /\ aiActiveFeature' = IF ok THEN f ELSE aiActiveFeature
  /\ aiConsole' = IF ok THEN aiConsole ELSE f
  /\ aiLoadingFeatures' = aiLoadingFeatures \ {f}
  /\ UNCHANGED <<dpAnalysis, dpAnalysisLoading, dpAnalyzeRequests, aiFullRequests,
                 aiPolls, alertVars, detailVars, favVars, apiVars, scraperVars>>

\* a click on the full-analysis button (disabled while loadingFeatures.full):
\* triggerFullAnalysis up to its fetch; setLoadingFeatures({ full: true })
\* replaces the whole map
AITriggerFullAnalysis ==
  /\ dpCar[AiTab] # NoCar
  /\ "full" \notin aiLoadingFeatures
  /\ aiLoadingFeatures' = {"full"}
  /\ aiFullRequests' = aiFullRequests + 1
  /\ UNCHANGED <<dpAnalysis, dpAnalysisLoading, dpAnalyzeRequests, aiActiveFeature,
                 aiFeaturesData, aiFeatureRequests, aiPolls, aiConsole,
                 alertVars, detailVars, favVars, apiVars, scraperVars>>

\* triggerFullAnalysis from the response of its fetch on: a 2xx sets the
\* 3 s timer of the insights loop; setLoadingFeatures({ full: false })
\* replaces the whole map
AIFullDone(ok) ==
  /\ aiFullRequests > 0
  /\ ok => Len(aiPolls) < MaxPolls
  /\ aiFullRequests' = aiFullRequests - 1
  /\ aiPolls' = IF ok THEN Append(aiPolls, 0) ELSE aiPolls
  /\ aiConsole' = IF ok THEN aiConsole ELSE "full"
  /\ aiLoadingFeatures' = {}
  /\ UNCHANGED <<dpAnalysis, dpAnalysisLoading, dpAnalyzeRequests, aiActiveFeature,
                 aiFeaturesData, aiFeatureRequests,
                 alertVars, detailVars, favVars, apiVars, scraperVars>>

\* the sequence without its k-th element
RemoveAt(s, k) == SubSeq(s, 1, k - 1) \o SubSeq(s, k + 1, Len(s))

\* the timer of the k-th loop fires: the insights request of the first
\* feature goes out
AIPollStart(k) ==
  /\ k \in DOMAIN aiPolls
  /\ aiPolls[k] = 0
  /\ aiPolls' = [aiPolls EXCEPT ![k] = 1]
  /\ UNCHANGED <<dpAnalysis, dpAnalysisLoading, dpAnalyzeRequests, aiActiveFeature,
                 aiFeaturesData, aiLoadingFeatures, aiFeatureRequests, aiFullRequests,
                 aiConsole, alertVars, detailVars, favVars, apiVars, scraperVars>>

\* an insights loop that ends at the first request that fails
AIPollDone_stopping(k, ok) ==
  /\ k \in DOMAIN aiPolls
  /\ aiPolls[k] > 0
  /\ aiFeaturesData' = IF ok THEN [aiFeaturesData EXCEPT ![FeatureList[aiPolls[k]]] = InsightsData]
                       ELSE aiFeaturesData
  /\ aiPolls' = IF ok /\ aiPolls[k] < Len(FeatureList)
                THEN [aiPolls EXCEPT ![k] = @ + 1]
                ELSE RemoveAt(aiPolls, k)
  /\ UNCHANGED <<dpAnalysis, dpAnalysisLoading, dpAnalyzeRequests, aiActiveFeature,
                 aiLoadingFeatures, aiFeatureRequests, aiFullRequests, aiConsole,
                 alertVars, detailVars, favVars, apiVars, scraperVars>>

\* the insights request in flight of the k-th loop completes (~ok: non-2xx,
\* which logs nothing, or a network error); the loop goes on to the next
\* feature of the list or ends after the last
AIPollDone(k, ok) ==
  /\ k \in DOMAIN aiPolls
  /\ aiPolls[k] > 0
  /\ aiFeaturesData' = IF ok THEN [aiFeaturesData EXCEPT ![FeatureList[aiPolls[k]]] = InsightsData]
                       ELSE aiFeaturesData
  /\ aiPolls' = IF aiPolls[k] < Len(FeatureList)
                THEN [aiPolls EXCEPT ![k] = @ + 1]
                ELSE RemoveAt(aiPolls, k)
  /\ UNCHANGED <<dpAnalysis, dpAnalysisLoading, dpAnalyzeRequests, aiActiveFeature,
                 aiLoadingFeatures, aiFeatureRequests, aiFullRequests, aiConsole,
                 alertVars, detailVars, favVars, apiVars, scraperVars>>

(***************************************************************************)
(* Detail page of tab t and its price panel.                               *)
(***************************************************************************)
\* navigation to /cars/[id]: a fresh CarDetail; its mount effect starts
\* fetchCar and runs checkFavoriteStatus
DPOpen(t, c) ==
  /\ dpCarId' = [dpCarId EXCEPT ![t] = c]
  /\ dpCar' = [dpCar EXCEPT ![t] = NoCar]
  /\ dpLoading' = [dpLoading EXCEPT ![t] = TRUE]
  /\ dpIsFavorite' = [dpIsFavorite EXCEPT ![t] = c \in Range(carFavorites)]
  /\ phAlerts' = [phAlerts EXCEPT ![t] = <<>>]
  /\ IF t = AiTab THEN AIMount ELSE UNCHANGED aiVars
  /\ UNCHANGED <<priceAlerts, now, apAlerts, apLoading, apCarDetails, favVars, apiVars, scraperVars>>

\* a fetchCar that calls setCar with the body of any response: without a
\* listing in it, the car held has no field filled
DPFetchCar_settingCar(t, resp) ==
  /\ dpLoading[t]
  /\ dpLoading' = [dpLoading EXCEPT ![t] = FALSE]
  /\ dpCar' = [dpCar EXCEPT ![t] = IF resp = NoCar THEN Null ELSE resp]
  /\ phAlerts' = [phAlerts EXCEPT ![t] =
        SelectSeq(priceAlerts, LAMBDA a : a.carId = dpCarId[t])]
  /\ UNCHANGED <<priceAlerts, now, apAlerts, apLoading, apCarDetails,
                 dpCarId, dpIsFavorite, favVars, apiVars, aiVars, scraperVars>>

\* fetchCar completes (resp = NoCar: non-2xx or network error, setCar is not
\* called); on a 2xx the page renders PriceHistory, whose mount effect runs
\* loadAlerts
DPFetchCar(t, resp) ==
  /\ dpLoading[t]
  /\ dpLoading' = [dpLoading EXCEPT ![t] = FALSE]
  /\ dpCar' = [dpCar EXCEPT ![t] = IF resp = NoCar THEN @ ELSE resp]
  /\ phAlerts' = [phAlerts EXCEPT ![t] =
        IF resp = NoCar THEN <<>>
        ELSE SelectSeq(priceAlerts, LAMBDA a : a.carId = dpCarId[t])]
  /\ UNCHANGED <<priceAlerts, now, apAlerts, apLoading, apCarDetails,
                 dpCarId, dpIsFavorite, favVars, apiVars, aiVars, scraperVars>>

\* PriceHistory.createAlert with the form's text and condition
PHCreateAlert(t, text, condition) ==
  /\ dpCar[t] # NoCar
  /\ Len(phAlerts[t]) < MaxAlerts
  /\ LET price == parseFloat(text)
         newAlert == [id |-> now, carId |-> dpCarId[t], targetPrice |-> price.val,
                      condition |-> condition, isActive |-> TRUE,
                      createdAt |-> now, triggeredAt |-> NoTime]
         updatedAlerts == phAlerts[t] \o <<newAlert>>
     IN IF price.nan \/ price.val <= 0
        THEN UNCHANGED <<phAlerts, priceAlerts>>
        ELSE /\ Len(phSaved(priceAlerts, dpCarId[t], updatedAlerts)) <= MaxAlerts
             /\ phAlerts' = [phAlerts EXCEPT ![t] = updatedAlerts]
             /\ priceAlerts' = phSaved(priceAlerts, dpCarId[t], updatedAlerts)
  /\ UNCHANGED <<now, apAlerts, apLoading, apCarDetails, detailVars, favVars, apiVars, aiVars, scraperVars>>

PHToggleAlert(t, alertId) ==
  /\ dpCar[t] # NoCar
  /\ \E i \in DOMAIN phAlerts[t] : phAlerts[t][i].id = alertId
  /\ Len(phSaved(priceAlerts, dpCarId[t], phAlerts[t])) <= MaxAlerts
  /\ phAlerts' = [phAlerts EXCEPT ![t] = toggleIn(phAlerts[t], alertId)]
  /\ priceAlerts' = phSaved(priceAlerts, dpCarId[t], toggleIn(phAlerts[t], alertId))
  /\ UNCHANGED <<now, apAlerts, apLoading, apCarDetails, detailVars, favVars, apiVars, aiVars, scraperVars>>

PHDeleteAlert(t, alertId) ==
  /\ dpCar[t] # NoCar
  /\ \E i \in DOMAIN phAlerts[t] : phAlerts[t][i].id = alertId
  /\ phAlerts' = [phAlerts EXCEPT ![t] = deleteIn(phAlerts[t], alertId)]
  /\ priceAlerts' = phSaved(priceAlerts, dpCarId[t], deleteIn(phAlerts[t], alertId))
  /\ UNCHANGED <<now, apAlerts, apLoading, apCarDetails, detailVars, favVars, apiVars, aiVars, scraperVars>>

\* the millisecond clock advances
Tick ==
  /\ now < MaxClock
  /\ now' = now + 1
  /\ UNCHANGED <<priceAlerts, apAlerts, apLoading, apCarDetails, phAlerts,
                 detailVars, favVars, apiVars, aiVars, scraperVars>>

(***************************************************************************)
(* Favorites: the detail page's button and the favorites page.             *)
(***************************************************************************)
\* favorites.filter((id) => id !== carId)
withoutId(favorites, carId) == SelectSeq(favorites, LAMBDA id : id # carId)

\* CarDetail.toggleFavorite, as a function of what it reads: the stored list,
\* the component's isFavorite and its carId
toggleFavorite(favorites, isFavorite, carId) ==
  [updatedFavorites |-> IF isFavorite
                        THEN withoutId(favorites, carId)
                        ELSE favorites \o <<carId>>,
   isFavorite |-> ~isFavorite]

\* a click on the favorite button, which is rendered once the car is loaded
DPToggleFavorite(t) ==
  /\ dpCar[t] # NoCar
  /\ LET r == toggleFavorite(carFavorites, dpIsFavorite[t], dpCarId[t])
     IN /\ Len(r.updatedFavorites) <= MaxFavs
        /\ carFavorites' = r.updatedFavorites
        /\ dpIsFavorite' = [dpIsFavorite EXCEPT ![t] = r.isFavorite]
  /\ UNCHANGED <<apiVars, aiVars, alertVars, dpCarId, dpCar, dpLoading,
                 fpFavorites, fpFavoriteCars, fpLoading, fpBatches, scraperVars>>

\* cars.filter(car => car !== null) over the joined results: the ids whose
\* fetch was ok, in the order of the call's favorites
validCars(ids, ok) ==
  LET F[i \in 0..Len(ids)] ==
        IF i = 0 THEN <<>>
        ELSE IF ok[i] THEN Append(F[i - 1], ids[i]) ELSE F[i - 1]
  IN F[Len(ids)]

\* useEffect([favorites]) for the new value of favorites: fetchFavoriteCars up
\* to its await, or the empty display
FPFavoritesEffect(favorites, favoriteCars, batches) ==
  IF Len(favorites) > 0
  THEN /\ fpLoading' = TRUE
       /\ fpBatches' = Append(batches, favorites)
       /\ fpFavoriteCars' = favoriteCars
  ELSE /\ fpLoading' = FALSE
       /\ fpBatches' = batches
       /\ fpFavoriteCars' = <<>>

\* mount of a fresh FavoritesPage: loadFavorites, then the effect on favorites;
\* calls of an earlier instance no longer reach the page
FPMount ==
  /\ fpFavorites' = carFavorites
  /\ FPFavoritesEffect(carFavorites, <<>>, <<>>)
  /\ UNCHANGED <<apiVars, aiVars, alertVars, detailVars, carFavorites, scraperVars>>

\* fetchFavoriteCars as it would be without the try/catch around each fetch:
\* one failure rejects Promise.all and the outer catch keeps the old display
FPFetchDone_rejecting(b, ok) ==
  /\ b \in DOMAIN fpBatches
  /\ DOMAIN ok = DOMAIN fpBatches[b]
  /\ fpFavoriteCars' = IF \A i \in DOMAIN ok : ok[i]
                       THEN validCars(fpBatches[b], ok) ELSE fpFavoriteCars
  /\ fpLoading' = FALSE
  /\ fpBatches' = [i \in 1..(Len(fpBatches) - 1) |->
                     IF i < b THEN fpBatches[i] ELSE fpBatches[i + 1]]
  /\ UNCHANGED <<apiVars, aiVars, alertVars, detailVars, carFavorites, fpFavorites, scraperVars>>

\* call b of fetchFavoriteCars gets past Promise.all: ok[i] tells whether the
\* fetch of its i-th id returned 2xx (else non-2xx or a network error)
FPFetchDone(b, ok) ==
  /\ b \in DOMAIN fpBatches
  /\ DOMAIN ok = DOMAIN fpBatches[b]
  /\ fpFavoriteCars' = validCars(fpBatches[b], ok)
  /\ fpLoading' = FALSE
  /\ fpBatches' = [i \in 1..(Len(fpBatches) - 1) |->
                     IF i < b THEN fpBatches[i] ELSE fpBatches[i + 1]]
  /\ UNCHANGED <<apiVars, aiVars, alertVars, detailVars, carFavorites, fpFavorites, scraperVars>>

\* FavoritesPage.removeFavorite, from the card of a displayed car
FPRemoveFavorite(carId) ==
  /\ ~fpLoading
  /\ carId \in Range(fpFavoriteCars)
  /\ Len(fpBatches) < MaxBatches
  /\ LET updatedFavorites == withoutId(fpFavorites, carId)
     IN /\ fpFavorites' = updatedFavorites
        /\ carFavorites' = updatedFavorites
        /\ FPFavoritesEffect(updatedFavorites, withoutId(fpFavoriteCars, carId),
                             fpBatches)
  /\ UNCHANGED <<apiVars, aiVars, alertVars, detailVars, scraperVars>>

\* FavoritesPage.clearAllFavorites; the button shows while favorites is not empty
FPClearAllFavorites ==
  /\ Len(fpFavorites) > 0
  /\ fpFavorites' = <<>>
  /\ carFavorites' = <<>>
  /\ FPFavoritesEffect(<<>>, <<>>, fpBatches)
  /\ UNCHANGED <<apiVars, aiVars, alertVars, detailVars, scraperVars>>

\* Array.prototype.sort, which is stable, as an insertion sort: an element
\* goes behind every element that the comparator does not put after it
sort(s, compare(_, _)) ==
  LET sorted[n \in 0..Len(s)] ==
        IF n = 0 THEN <<>>
        ELSE LET front == sorted[n - 1]
                 k == Cardinality({i \in DOMAIN front : compare(front[i], s[n]) <= 0})
             IN SubSeq(front, 1, k) \o <<s[n]>> \o SubSeq(front, k + 1, Len(front))
  IN sorted[Len(s)]

\* the comparator of sortedAndFilteredCars for sortBy = 'date_added'
compareDateAdded(a, b) == 0

\* sortedAndFilteredCars with the default sort 'date_added' and an empty
\* filter text, as the ids of the cars displayed
sortedAndFilteredCars(favoriteCars) == sort(favoriteCars, compareDateAdded)

(***************************************************************************)
(* Listing store and query API (server). The server's code is not part of  *)
(* the repository's source tree; upsert, Matches and ListCars follow the   *)
(* store and query contracts of the specification (sections 3, 4.2, 4.3).  *)
(***************************************************************************)
Min(a, b) == IF a <= b THEN a ELSE b
Max(a, b) == IF a >= b THEN a ELSE b

Reverse(s) == [i \in 1..Len(s) |-> s[Len(s) + 1 - i]]

\* what the marketplace shows for external id i, apart from the ad's price,
\* text and images; Null for a number the marketplace omits
YearOf(i) == CASE i % 3 = 1 -> 2005 [] i % 3 = 2 -> 2015 [] OTHER -> Null
MileageOf(i) == CASE i % 5 = 0 -> Null [] i % 2 = 0 -> 80000 [] OTHER -> 120000
DepartmentOf(i) == IF i % 2 = 0 THEN "69" ELSE "75"
FuelTypeOf(i) == CASE i % 3 = 1 -> "essence" [] i % 3 = 2 -> "diesel" [] OTHER -> "electrique"
SellerTypeOf(i) == IF i % 4 \in {1, 2} THEN "particulier" ELSE "professionnel"
PriceOf(i) == CASE i % 4 = 1 -> 5000 [] i % 4 = 2 -> 12000 [] i % 4 = 3 -> 20000 [] OTHER -> Null

\* text and images of an ad, as the marketplace shows them in one run
AdTexts == {[description |-> "d1", images |-> <<>>],
            [description |-> "d2", images |-> <<"u1">>]}

\* prices an ad can show in one run
AdPrices == {Null, 12000}

\* the normalized record of external id i showing the given price and text
RawListing(i, price, ad) ==
  [external_id |-> i, price |-> price,
   description |-> ad.description, images |-> ad.images,
   year |-> YearOf(i), mileage |-> MileageOf(i), department |-> DepartmentOf(i),
   fuel_type |-> FuelTypeOf(i), seller_type |-> SellerTypeOf(i)]

\* the stored form of a record inserted at time t
Inserted(raw, t) ==
  [external_id |-> raw.external_id, price |-> raw.price,
   description |-> raw.description, images |-> raw.images,
   year |-> raw.year, mileage |-> raw.mileage, department |-> raw.department,
   fuel_type |-> raw.fuel_type, seller_type |-> raw.seller_type,
   first_seen |-> t, last_seen |-> t]

\* an upsert that inserts a second record for an id already stored
upsert_appending(st, raw, t) == Append(st, Inserted(raw, t))

\* upsert(record): insert if the external_id is unseen, else update the
\* mutable fields (price, description, images) and last_seen
upsert(st, raw, t) ==
  IF \E k \in DOMAIN st : st[k].external_id = raw.external_id
  THEN [k \in DOMAIN st |->
          IF st[k].external_id = raw.external_id
          THEN [st[k] EXCEPT !.price = raw.price,
                             !.description = raw.description,
                             !.images = raw.images,
                             !.last_seen = t]
          ELSE st[k]]
  ELSE Append(st, Inserted(raw, t))

\* the ingestion upserts one record
UpsertListing(raw) ==
  /\ store' = upsert(store, raw, storeNow)
  /\ UNCHANGED <<storeNow, ingestVars, homeVars, alertVars, detailVars, favVars, aiVars, scraperVars>>

\* time passes between two upserts
StoreTick ==
  /\ storeNow < MaxStoreClock
  /\ storeNow' = storeNow + 1
  /\ UNCHANGED <<store, ingestVars, homeVars, alertVars, detailVars, favVars, aiVars, scraperVars>>

(***************************************************************************)
(* Ingestion worker: a run fetches the marketplace's pages in sequence and *)
(* upserts their records.                                                  *)
(***************************************************************************)
\* a run starts with its maximum record count; one ingestion at a time
IngestStart(maxCount) ==
  /\ runState # "running"
  /\ runState' = "running"
  /\ runMax' = maxCount
  /\ runFetched' = 0
  /\ runPage' = 1
  /\ UNCHANGED <<store, storeNow, homeVars, alertVars, detailVars, favVars, aiVars, scraperVars>>

\* the store after the records are upserted in their order at time t
RECURSIVE UpsertAll(_, _, _)
UpsertAll(st, records, t) ==
  IF records = <<>> THEN st
  ELSE UpsertAll(upsert(st, Head(records), t), Tail(records), t)

\* the records of a page the run takes: up to its maximum record count
Taken(records) == SubSeq(records, 1, Min(Len(records), runMax - runFetched))

\* a run that replaces the stored listings with those of the page
IngestPage_replacing(records, more) ==
  /\ runState = "running"
  /\ store' = UpsertAll(<<>>, Taken(records), storeNow)
  /\ runFetched' = runFetched + Len(Taken(records))
  /\ runPage' = runPage + 1
  /\ runState' = IF runFetched' >= runMax \/ ~more THEN "done" ELSE "running"
  /\ UNCHANGED <<runMax, storeNow, homeVars, alertVars, detailVars, favVars, aiVars, scraperVars>>

\* the fetch of the next page returns its records and whether the
\* marketplace has further pages: the records are upserted, and the run
\* stops at its maximum record count or at the last page
IngestPage(records, more) ==
  /\ runState = "running"
  /\ store' = UpsertAll(store, Taken(records), storeNow)
  /\ runFetched' = runFetched + Len(Taken(records))
  /\ runPage' = runPage + 1
  /\ runState' = IF runFetched' >= runMax \/ ~more THEN "done" ELSE "running"
  /\ UNCHANGED <<runMax, storeNow, homeVars, alertVars, detailVars, favVars, aiVars, scraperVars>>

\* a run that goes on to the next page after a page fetch that failed
IngestPageFailed_continuing ==
  /\ runState = "running"
  /\ runPage' = runPage + 1
  /\ UNCHANGED <<runState, runMax, runFetched, store, storeNow, homeVars, alertVars,
                 detailVars, favVars, aiVars, scraperVars>>

\* the fetch of the next page fails: logged, the run stops, what it has
\* upserted stays
IngestPageFailed ==
  /\ runState = "running"
  /\ runState' = "failed"
  /\ UNCHANGED <<runMax, runFetched, runPage, store, storeNow, homeVars, alertVars,
                 detailVars, favVars, aiVars, scraperVars>>

\* get(external_id): the stored listing, or NoCar for not found
GetListing(st, id) ==
  IF \E k \in DOMAIN st : st[k].external_id = id
  THEN st[CHOOSE k \in DOMAIN st : st[k].external_id = id]
  ELSE NoCar

\* a listing satisfying at least one of the filters a request supplies
Matches_any(l, p) ==
  \/ p.min_price # Null /\ l.price # Null /\ l.price >= p.min_price
  \/ p.max_price # Null /\ l.price # Null /\ l.price <= p.max_price
  \/ p.min_year # Null /\ l.year # Null /\ l.year >= p.min_year
  \/ p.max_year # Null /\ l.year # Null /\ l.year <= p.max_year
  \/ p.min_mileage # Null /\ l.mileage # Null /\ l.mileage >= p.min_mileage
  \/ p.max_mileage # Null /\ l.mileage # Null /\ l.mileage <= p.max_mileage
  \/ p.department # "" /\ l.department = p.department
  \/ p.fuel_type # <<>> /\ l.fuel_type \in Range(p.fuel_type)
  \/ p.seller_type # <<>> /\ l.seller_type \in Range(p.seller_type)

\* a listing satisfies the filters a request supplies; a parameter the
\* request does not carry is Null (number), "" (department) or <<>> (repeated
\* parameter) and imposes no constraint; a listing without the number does not
\* satisfy a supplied range
Matches(l, p) ==
  /\ p.min_price # Null => (l.price # Null /\ l.price >= p.min_price)
  /\ p.max_price # Null => (l.price # Null /\ l.price <= p.max_price)
  /\ p.min_year # Null => (l.year # Null /\ l.year >= p.min_year)
  /\ p.max_year # Null => (l.year # Null /\ l.year <= p.max_year)
  /\ p.min_mileage # Null => (l.mileage # Null /\ l.mileage >= p.min_mileage)
  /\ p.max_mileage # Null => (l.mileage # Null /\ l.mileage <= p.max_mileage)
  /\ p.department # "" => l.department = p.department
  /\ p.fuel_type # <<>> => l.fuel_type \in Range(p.fuel_type)
  /\ p.seller_type # <<>> => l.seller_type \in Range(p.seller_type)

\* the records matching the request's filters, most recently inserted first
MatchingListings(st, p) == SelectSeq(Reverse(st), LAMBDA l : Matches(l, p))

\* list(filters): the matching records offset by skip and truncated to limit,
\* and the count of all matching records
ListCars(st, p) ==
  LET all == MatchingListings(st, p)
  IN [cars |-> SubSeq(all, p.skip + 1, Min(p.skip + p.limit, Len(all))),
      total |-> Len(all)]

(***************************************************************************)
(* Home page (Home) and its filter panel (CarFilters).                     *)
(***************************************************************************)
CARS_PER_PAGE == 12

\* the year new Date().getFullYear() returns
CurrentYear == 2026

\* Home's and CarFilters' initial useState values
DefaultFilters ==
  [minPrice |-> 0, maxPrice |-> 100000, department |-> "",
   minYear |-> 1990, maxYear |-> CurrentYear,
   minMileage |-> 0, maxMileage |-> 300000,
   fuelTypes |-> <<>>, sellerTypes |-> <<>>]

\* values the panel's controls can be left at: for every dimension the
\* default and a narrower one
FilterSpace ==
  [minPrice : {0, 10000}, maxPrice : {100000, 15000}, department : {"", "69"},
   minYear : {1990, 2010}, maxYear : {CurrentYear, 2020},
   minMileage : {0, 50000}, maxMileage : {300000, 100000},
   fuelTypes : {<<>>, <<"diesel">>, <<"diesel", "essence">>},
   sellerTypes : {<<>>, <<"particulier">>}]

\* options of the sort select used
SortKeys == {"date_added", "price_asc"}

\* a request whose skip is the page number times the page size
fetchCarsParams_skipping(filters, currentPage, sortBy) ==
  [skip |-> currentPage * CARS_PER_PAGE,
   limit |-> CARS_PER_PAGE,
   min_price |-> IF filters.minPrice > 0 THEN filters.minPrice ELSE Null,
   max_price |-> IF filters.maxPrice < 100000 THEN filters.maxPrice ELSE Null,
   department |-> filters.department,
   min_year |-> IF filters.minYear > 1990 THEN filters.minYear ELSE Null,
   max_year |-> IF filters.maxYear < CurrentYear THEN filters.maxYear ELSE Null,
   min_mileage |-> IF filters.minMileage > 0 THEN filters.minMileage ELSE Null,
   max_mileage |-> IF filters.maxMileage < 300000 THEN filters.maxMileage ELSE Null,
   fuel_type |-> filters.fuelTypes,
   seller_type |-> filters.sellerTypes,
   sort |-> sortBy]

\* a fetchCars that appends every range filter, at its default or not
fetchCarsParams_sendingDefaults(filters, currentPage, sortBy) ==
  [skip |-> (currentPage - 1) * CARS_PER_PAGE,
   limit |-> CARS_PER_PAGE,
   min_price |-> filters.minPrice,
   max_price |-> filters.maxPrice,
   department |-> filters.department,
   min_year |-> filters.minYear,
   max_year |-> filters.maxYear,
   min_mileage |-> filters.minMileage,
   max_mileage |-> filters.maxMileage,
   fuel_type |-> filters.fuelTypes,
   seller_type |-> filters.sellerTypes,
   sort |-> sortBy]

\* fetchCars up to the fetch: the query parameters of the list request; a
\* parameter that is not appended is Null, "" or <<>>
fetchCarsParams(filters, currentPage, sortBy) ==
  [skip |-> (currentPage - 1) * CARS_PER_PAGE,
   limit |-> CARS_PER_PAGE,
   min_price |-> IF filters.minPrice > 0 THEN filters.minPrice ELSE Null,
   max_price |-> IF filters.maxPrice < 100000 THEN filters.maxPrice ELSE Null,
   department |-> filters.department,
   min_year |-> IF filters.minYear > 1990 THEN filters.minYear ELSE Null,
   max_year |-> IF filters.maxYear < CurrentYear THEN filters.maxYear ELSE Null,
   min_mileage |-> IF filters.minMileage > 0 THEN filters.minMileage ELSE Null,
   max_mileage |-> IF filters.maxMileage < 300000 THEN filters.maxMileage ELSE Null,
   fuel_type |-> filters.fuelTypes,
   seller_type |-> filters.sellerTypes,
   sort |-> sortBy]

\* Math.ceil(totalCars / CARS_PER_PAGE)
totalPages(totalCars) == (totalCars + CARS_PER_PAGE - 1) \div CARS_PER_PAGE

\* the pages the pagination controls lead to
PageButtons(currentPage, pages) ==
  (IF currentPage # 1 THEN {Max(1, currentPage - 1)} ELSE {})
    \cup (1..Min(5, pages))
    \cup (IF pages > 5 THEN {pages} ELSE {})
    \cup (IF currentPage # pages THEN {Min(pages, currentPage + 1)} ELSE {})

\* a handleFiltersChange that keeps the current page
handleFiltersChange_keeping(newFilters, currentPage) ==
  [filters |-> newFilters, currentPage |-> currentPage]

\* handleFiltersChange: setFilters(newFilters), setCurrentPage(1)
handleFiltersChange(newFilters, currentPage) ==
  [filters |-> newFilters, currentPage |-> 1]

\* the effects that run after Home has rendered: Home's effect calls
\* fetchCars with the filters, page and sort of this render (the fetch is
\* sent, loading is set); the panel's effect, which depends on the
\* onFiltersChange prop and so on every render of Home, calls
\* handleFiltersChange with the panel's values
HPEffects ==
  /\ Len(hpRequests) < MaxInFlight
  /\ hpRequests' = Append(hpRequests, fetchCarsParams(hpFilters, hpCurrentPage, hpSortBy))
  /\ hpLoading' = TRUE
  /\ hpFilters' = handleFiltersChange(cfFilters, hpCurrentPage).filters
  /\ hpCurrentPage' = handleFiltersChange(cfFilters, hpCurrentPage).currentPage
  /\ hpRenderDue' = FALSE
  /\ UNCHANGED <<cfFilters, cfShowAdvanced, cfMoves, hpSortBy, hpCars, hpTotalCars,
                 hpOlder, storeVars, alertVars, detailVars, favVars, aiVars, scraperVars>>

\* the rest of fetchCars: the k-th request in flight completes, with the
\* server's answer, a non-2xx status or a network failure
HPFetchDone(k, outcome) ==
  /\ ~hpRenderDue
  /\ k \in DOMAIN hpRequests
  /\ LET data == ListCars(store, hpRequests[k])
     IN IF outcome = "ok"
        THEN /\ hpCars' = data.cars
             /\ hpTotalCars' = data.total
        ELSE UNCHANGED <<hpCars, hpTotalCars>>
  /\ hpLoading' = FALSE
  /\ hpOlder' = IF outcome = "ok" THEN k - 1
                ELSE IF k <= hpOlder THEN hpOlder - 1 ELSE hpOlder
  /\ hpRequests' = [i \in 1..(Len(hpRequests) - 1) |->
                      IF i < k THEN hpRequests[i] ELSE hpRequests[i + 1]]
  /\ UNCHANGED <<cfFilters, cfShowAdvanced, cfMoves, hpFilters, hpSortBy, hpCurrentPage,
                 hpRenderDue, storeVars, alertVars, detailVars, favVars, aiVars, scraperVars>>

\* a click on a pagination control (shown when not loading and there is
\* more than one page)
HPSetPage(page) ==
  /\ ~hpRenderDue
  /\ Len(hpRequests) < MaxInFlight
  /\ ~hpLoading
  /\ totalPages(hpTotalCars) > 1
  /\ page \in PageButtons(hpCurrentPage, totalPages(hpTotalCars))
  /\ page # hpCurrentPage
  /\ hpCurrentPage' = page
  /\ hpRenderDue' = TRUE
  /\ UNCHANGED <<cfFilters, cfShowAdvanced, cfMoves, hpFilters, hpSortBy, hpCars,
                 hpTotalCars, hpLoading, hpRequests,
                 hpOlder, storeVars, alertVars, detailVars, favVars, aiVars, scraperVars>>

\* handleSortChange
HPSortChange(value) ==
  /\ ~hpRenderDue
  /\ Len(hpRequests) < MaxInFlight
  /\ value # hpSortBy
  /\ hpSortBy' = value
  /\ hpRenderDue' = TRUE
  /\ UNCHANGED <<cfFilters, cfShowAdvanced, cfMoves, hpFilters, hpCurrentPage, hpCars,
                 hpTotalCars, hpLoading, hpRequests,
                 hpOlder, storeVars, alertVars, detailVars, favVars, aiVars, scraperVars>>

(***************************************************************************)
(* Filter panel (CarFilters).                                              *)
(***************************************************************************)
\* positions the user drags the sliders to, and choices in the other controls
PriceInputs == {10000, 15000}
YearInputs == {2010, 2020}
MileageInputs == {50000, 100000}
DepartmentInputs == {"", "69"}
FuelInputs == {"diesel", "essence"}
SellerInputs == {"particulier"}

\* toggleFuelType / toggleSellerType: remove the value if selected, else append it
toggleType(prev, type) ==
  IF type \in Range(prev)
  THEN SelectSeq(prev, LAMBDA x : x # type)
  ELSE Append(prev, type)

\* a control of the panel sets the panel's state to newFilters: the panel
\* re-renders, its effect reports the values to handleFiltersChange, and
\* Home's re-render is due
CFChange(newFilters) ==
  /\ ~hpRenderDue
  /\ Len(hpRequests) < MaxInFlight
  /\ cfMoves < MaxPanelMoves
  /\ newFilters # cfFilters
  /\ cfFilters' = newFilters
  /\ cfMoves' = cfMoves + 1
  /\ hpFilters' = handleFiltersChange(newFilters, hpCurrentPage).filters
  /\ hpCurrentPage' = handleFiltersChange(newFilters, hpCurrentPage).currentPage
  /\ hpRenderDue' = TRUE
  /\ UNCHANGED <<cfShowAdvanced, hpSortBy, hpCars, hpTotalCars, hpLoading, hpRequests,
                 hpOlder, storeVars, alertVars, detailVars, favVars, aiVars, scraperVars>>

\* a min price slider that stores the position as it is
CFSetMinPrice_unclamped(value) ==
  /\ value \in 0..100000 /\ value % 1000 = 0
  /\ CFChange([cfFilters EXCEPT !.minPrice = value])

\* the price sliders (min 0, max 100000, step 1000)
CFSetMinPrice(value) ==
  /\ value \in 0..100000 /\ value % 1000 = 0
  /\ CFChange([cfFilters EXCEPT !.minPrice = Min(value, cfFilters.maxPrice - 1000)])

CFSetMaxPrice(value) ==
  /\ value \in 0..100000 /\ value % 1000 = 0
  /\ CFChange([cfFilters EXCEPT !.maxPrice = Max(value, cfFilters.minPrice + 1000)])

\* the department select, over the options of FRENCH_DEPARTMENTS used
CFSetDepartment(value) ==
  /\ value \in DepartmentInputs
  /\ CFChange([cfFilters EXCEPT !.department = value])

\* the button showing or hiding the advanced controls
CFToggleAdvanced ==
  /\ ~hpRenderDue
  /\ cfShowAdvanced' = ~cfShowAdvanced
  /\ UNCHANGED <<cfFilters, cfMoves, hpFilters, hpSortBy, hpCurrentPage, hpCars,
                 hpTotalCars, hpLoading, hpRenderDue, hpRequests,
                 hpOlder, storeVars, alertVars, detailVars, favVars, aiVars, scraperVars>>

\* the advanced controls: year and mileage sliders, fuel and seller buttons
CFSetMinYear(value) ==
  /\ cfShowAdvanced
  /\ CFChange([cfFilters EXCEPT !.minYear = Min(value, cfFilters.maxYear - 1)])

CFSetMaxYear(value) ==
  /\ cfShowAdvanced
  /\ CFChange([cfFilters EXCEPT !.maxYear = Max(value, cfFilters.minYear + 1)])

CFSetMinMileage(value) ==
  /\ cfShowAdvanced
  /\ CFChange([cfFilters EXCEPT !.minMileage = Min(value, cfFilters.maxMileage - 5000)])

CFSetMaxMileage(value) ==
  /\ cfShowAdvanced
  /\ CFChange([cfFilters EXCEPT !.maxMileage = Max(value, cfFilters.minMileage + 5000)])

CFToggleFuelType(fuelType) ==
  /\ cfShowAdvanced
  /\ CFChange([cfFilters EXCEPT !.fuelTypes = toggleType(@, fuelType)])

CFToggleSellerType(sellerType) ==
  /\ cfShowAdvanced
  /\ CFChange([cfFilters EXCEPT !.sellerTypes = toggleType(@, sellerType)])

\* the number of filter groups that are not at their default
activeFiltersCount(f) ==
  Cardinality({g \in 1..6 :
     CASE g = 1 -> f.minPrice > 0 \/ f.maxPrice < 100000
       [] g = 2 -> f.department # ""
       [] g = 3 -> f.minYear > 1990 \/ f.maxYear < CurrentYear
       [] g = 4 -> f.minMileage > 0 \/ f.maxMileage < 300000
       [] g = 5 -> Len(f.fuelTypes) > 0
       [] OTHER -> Len(f.sellerTypes) > 0})

\* resetFilters, from the button shown while a filter is active
CFResetFilters ==
  /\ activeFiltersCount(cfFilters) > 0
  /\ CFChange(DefaultFilters)

\* no page has written yet; every tab shows the detail page of listing 1,
\* just mounted; the alerts page is just mounted
InitAlerts ==
  /\ priceAlerts = <<>>
  /\ now = 1
  /\ apAlerts = <<>>
  /\ apLoading = TRUE
  /\ apCarDetails = [c \in CarIds |-> NoCar]
  /\ phAlerts = [t \in Tabs |-> <<>>]

InitDetail ==
  /\ dpCarId = [t \in Tabs |-> 1]
  /\ dpCar = [t \in Tabs |-> NoCar]
  /\ dpLoading = [t \in Tabs |-> TRUE]
  /\ dpIsFavorite = [t \in Tabs |-> FALSE]

\* the detail page of tab AiTab is just mounted
InitAI ==
  /\ dpAnalysis = NoData
  /\ dpAnalysisLoading = FALSE
  /\ dpAnalyzeRequests = 0
  /\ aiActiveFeature = NoFeature
  /\ aiFeaturesData = [f \in FeatureIds |-> NoData]
  /\ aiLoadingFeatures = {}
  /\ aiFeatureRequests = [f \in FeatureIds |-> 0]
  /\ aiFullRequests = 0
  /\ aiPolls = <<>>
  /\ aiConsole = ""

\* the favorites page is just mounted on an empty list
InitFav ==
  /\ carFavorites = <<>>
  /\ fpFavorites = <<>>
  /\ fpFavoriteCars = <<>>
  /\ fpLoading = FALSE
  /\ fpBatches = <<>>

\* nothing ingested yet
InitStore ==
  /\ store = <<>>
  /\ storeNow = 1

\* no ingestion run has started
InitIngest ==
  /\ runState = "idle"
  /\ runMax = 0
  /\ runFetched = 0
  /\ runPage = 1

\* the home page is just mounted, before its first effects
InitHome ==
  /\ cfFilters = DefaultFilters
  /\ cfShowAdvanced = FALSE
  /\ cfMoves = 0
  /\ hpRenderDue = FALSE
  /\ hpFilters = DefaultFilters
  /\ hpSortBy = "date_added"
  /\ hpCurrentPage = 1
  /\ hpCars = <<>>
  /\ hpTotalCars = 0
  /\ hpLoading = TRUE
  /\ hpRequests = <<>>
  /\ hpOlder = 0

Init ==
  /\ InitAlerts /\ InitDetail /\ InitAI /\ InitFav /\ InitStore /\ InitIngest /\ InitHome
  /\ InitScraper

\* the handlers of the alerts page and of the detail page of tab 1, with the
\* inputs drawn from the given sets
AlertsStep(cars, prices, conditions) ==
  \/ APLoadAlerts
  \/ \E resp \in [CarIds -> prices \cup {NoCar}] : APLoadDone(resp)
  \/ \E id \in 1..MaxClock : APToggleAlert(id)
  \/ \E id \in 1..MaxClock : APDeleteAlert(id)
  \/ APClearAllAlerts
  \/ \E c \in cars : DPOpen(1, c)
  \/ \E resp \in prices \cup {NoCar} : DPFetchCar(1, resp)
  \/ \E text \in AlertInputs, condition \in conditions : PHCreateAlert(1, text, condition)
  \/ \E id \in 1..MaxClock : PHToggleAlert(1, id)
  \/ \E id \in 1..MaxClock : PHDeleteAlert(1, id)
  \/ Tick

\* alerts of two cars, written from both pages
NextAlerts == AlertsStep(CarIds, {1}, {"below"})

SpecAlerts == Init /\ [][NextAlerts]_vars

\* alerts of one car, every price and both conditions
NextTrigger == AlertsStep({1}, Prices, Conditions)

SpecTrigger == Init /\ [][NextTrigger]_vars

\* two detail pages and the favorites page on one local storage
NextFav ==
  \/ \E t \in Tabs, c \in CarIds : DPOpen(t, c)
  \/ \E t \in Tabs, resp \in {1, NoCar} : DPFetchCar(t, resp)
  \/ \E t \in Tabs : DPToggleFavorite(t)
  \/ FPMount
  \/ \E b \in 1..MaxBatches, ok \in UNION {[1..n -> BOOLEAN] : n \in 1..MaxFavs} :
       FPFetchDone(b, ok)
  \/ \E c \in CarIds : FPRemoveFavorite(c)
  \/ FPClearAllFavorites

SpecFav == Init /\ [][NextFav]_vars

\* the listings the ingestion can upsert
RawListings ==
  {RawListing(i, price, ad) : i \in 1..MaxStoreIds, price \in AdPrices, ad \in AdTexts}

\* the ingestion upserting what the marketplace shows, over time
NextStore ==
  \/ \E raw \in RawListings : UpsertListing(raw)
  \/ StoreTick

SpecStore == Init /\ [][NextStore]_vars

\* the pages the marketplace can show: one record, or MaxPageSize records
\* of distinct ads
Pages ==
  {<<raw>> : raw \in RawListings} \cup
  {p \in [1..MaxPageSize -> RawListings] :
     \A i, j \in 1..MaxPageSize : i # j => p[i].external_id # p[j].external_id}

\* ingestion runs, one after another, over time
NextIngest ==
  \/ \E maxCount \in 1..MaxRunRecords : IngestStart(maxCount)
  \/ \E records \in Pages, more \in BOOLEAN : IngestPage(records, more)
  \/ IngestPageFailed
  \/ StoreTick

SpecIngest == Init /\ [][NextIngest]_vars

\* the worker goes on with a run it has started: the response of the page
\* fetch it awaits arrives, as a page or as a failure
SpecIngestLive ==
  /\ SpecIngest
  /\ WF_vars(IngestPageFailed \/ \E records \in Pages, more \in BOOLEAN : IngestPage(records, more))

\* the store after one run over the ads of external ids 1..n
RECURSIVE CatalogueStore(_)
CatalogueStore(n) ==
  IF n = 0 THEN <<>>
  ELSE upsert(CatalogueStore(n - 1), RawListing(n, PriceOf(n), CHOOSE ad \in AdTexts : ad.description = "d1"), 1)

\* sizes of the stores the home page is checked against
StoreSizes == {0, 3, MaxListings}

\* the home page mounted on a store, its panel left at any of the values
InitQuery ==
  /\ InitAlerts /\ InitDetail /\ InitAI /\ InitFav /\ InitIngest /\ InitScraper
  /\ store \in {CatalogueStore(n) : n \in StoreSizes}
  /\ storeNow = 1
  /\ cfFilters \in FilterSpace
  /\ cfShowAdvanced = FALSE
  /\ cfMoves = 0
  /\ hpRenderDue = FALSE
  /\ hpFilters = cfFilters
  /\ hpSortBy = "date_added"
  /\ hpCurrentPage = 1
  /\ hpCars = <<>>
  /\ hpTotalCars = 0
  /\ hpLoading = TRUE
  /\ hpRequests = <<>>
  /\ hpOlder = 0

\* the home page's requests, their responses in any order, page and sort changes
NextQuery ==
  \/ HPEffects
  \/ \E k \in 1..MaxInFlight, outcome \in {"ok", "status", "failed"} : HPFetchDone(k, outcome)
  \/ \E page \in 1..(totalPages(MaxListings) + 1) : HPSetPage(page)
  \/ \E value \in SortKeys : HPSortChange(value)

SpecQuery == InitQuery /\ [][NextQuery]_vars

\* the home page and its filter panel on a store of MaxListings listings
InitPage ==
  /\ InitAlerts /\ InitDetail /\ InitAI /\ InitFav /\ InitIngest /\ InitScraper /\ InitHome
  /\ store = CatalogueStore(MaxListings)
  /\ storeNow = 1

\* the controls of the filter panel
PanelStep ==
  \/ \E value \in PriceInputs : CFSetMinPrice(value) \/ CFSetMaxPrice(value)
  \/ \E value \in DepartmentInputs : CFSetDepartment(value)
  \/ \E value \in YearInputs : CFSetMinYear(value) \/ CFSetMaxYear(value)
  \/ \E value \in MileageInputs : CFSetMinMileage(value) \/ CFSetMaxMileage(value)
  \/ \E value \in FuelInputs : CFToggleFuelType(value)
  \/ \E value \in SellerInputs : CFToggleSellerType(value)
  \/ CFResetFilters

NextHome ==
  \/ HPEffects
  \/ \E k \in 1..MaxInFlight, outcome \in {"ok", "status", "failed"} : HPFetchDone(k, outcome)
  \/ \E page \in 1..(totalPages(MaxListings) + 1) : HPSetPage(page)
  \/ \E value \in SortKeys : HPSortChange(value)
  \/ CFToggleAdvanced
  \/ PanelStep

SpecHome == InitPage /\ [][NextHome]_vars

\* what the user does on the home page
HomeUserStep ==
  \/ \E page \in 1..(totalPages(MaxListings) + 1) : HPSetPage(page)
  \/ \E value \in SortKeys : HPSortChange(value)
  \/ CFToggleAdvanced
  \/ PanelStep

\* React runs the effects of a render that is due, and every request in
\* flight is answered or fails
SpecHomeLive ==
  /\ SpecHome
  /\ WF_vars(HPEffects)
  /\ WF_vars(\E k \in 1..MaxInFlight, outcome \in {"ok", "status", "failed"} : HPFetchDone(k, outcome))

\* the detail page of tab AiTab: the car's fetch, and the handlers of the
\* Claude analysis and of the AI features panel
NextAI ==
  \/ \E resp \in {1, NoCar} : DPFetchCar(AiTab, resp)
  \/ DPHandleAnalyze
  \/ \E ok \in BOOLEAN : DPAnalyzeDone(ok)
  \/ \E f \in FeatureIds : AISelectFeature(f)
  \/ \E f \in FeatureIds : AITriggerFeatureAnalysis(f)
  \/ \E f \in FeatureIds, ok \in BOOLEAN : AIFeatureDone(f, ok)
  \/ AITriggerFullAnalysis
  \/ \E ok \in BOOLEAN : AIFullDone(ok)
  \/ \E k \in 1..MaxPolls : AIPollStart(k)
  \/ \E k \in 1..MaxPolls, ok \in BOOLEAN : AIPollDone(k, ok)

SpecAI == Init /\ [][NextAI]_vars

\* the scraper control: runs, their trigger's outcome, the status polling
NextScraper ==
  \/ SCRunScraper
  \/ \E outcome \in {"ok", "status", "failed"} : SCTriggerDone(outcome)
  \/ SCPollTick
  \/ SCStatusDone
  \/ SCStopPolling
  \/ SCTestScrapfly
  \/ \E outcome \in {"ok", "status", "failed"} : SCTestDone(outcome)
  \/ SCStatusTimer
  \/ SCFetchStatus

SpecScraper == Init /\ [][NextScraper]_vars

\* every request is answered or fails, and the timers set fire
SpecScraperLive ==
  /\ SpecScraper
  /\ WF_vars(\E outcome \in {"ok", "status", "failed"} : SCTriggerDone(outcome))
  /\ WF_vars(\E outcome \in {"ok", "status", "failed"} : SCTestDone(outcome))
  /\ WF_vars(SCStatusDone)
  /\ SF_vars(SCPollTick)
  /\ SF_vars(SCStatusTimer)
  /\ WF_vars(SCStopPolling)

(***************************************************************************)
(* Claims about the price alerts.                                          *)
(***************************************************************************)
\* the triggered predicate as the specification states it: an absent price
\* (null price, or no listing fetched) never triggers
ClaimTriggered(alert, price) ==
  /\ price # Null
  /\ price # NoCar
  /\ IF alert.condition = "below"
     THEN price <= alert.targetPrice
     ELSE price >= alert.targetPrice

\* C1: on the alerts page and in the price panel, the displayed triggered
\* status of every alert is: below -> currentPrice <= targetPrice, above ->
\* currentPrice >= targetPrice, and not triggered when the price is absent.
C1_TriggeredIffComparison ==
  /\ ~apLoading =>
       \A i \in DOMAIN apAlerts :
         getAlertStatus(apAlerts[i], apCarDetails).triggered
           <=> ClaimTriggered(apAlerts[i], apCarDetails[apAlerts[i].carId])
  /\ dpCar[1] # NoCar =>
       \A i \in DOMAIN phAlerts[1] :
         isTriggered(phAlerts[1][i], currentPriceProp(dpCar[1]))
           <=> ClaimTriggered(phAlerts[1][i], dpCar[1])

\* a step of one of the four handlers that write 'price-alerts'
AlertWriteStep ==
  \/ \E id \in 1..MaxClock : APToggleAlert(id) \/ APDeleteAlert(id)
  \/ APClearAllAlerts
  \/ \E text \in AlertInputs, condition \in Conditions : PHCreateAlert(1, text, condition)
  \/ \E id \in 1..MaxClock : PHToggleAlert(1, id) \/ PHDeleteAlert(1, id)

\* the alerts page shows another triggered status for an alert it keeps
APStatusFlips ==
  \E a \in Range(apAlerts) \cap Range(apAlerts') :
    getAlertStatus(a, apCarDetails).triggered
      # getAlertStatus(a, apCarDetails').triggered

\* the price panel is (re)rendered with a fetched price
PHStatusShown == dpCar'[1] # dpCar[1] /\ dpCar'[1] # NoCar

\* C4: a step in which the triggered status of an alert changes, or in which
\* the price panel evaluates it for a newly fetched price, leaves the list
\* stored under 'price-alerts' unchanged; the stored list changes only in a
\* step of create, toggle, delete or clear-all.
C4_StatusIsDerivedNotStored ==
  [][ /\ (APStatusFlips \/ PHStatusShown) => priceAlerts' = priceAlerts
      /\ priceAlerts' # priceAlerts => AlertWriteStep ]_vars

\* C4 witness: one stored alert is shown triggered on the alerts page and not
\* triggered in the price panel: the two pages fetched different prices of the
\* listing, and the alert record is the same in storage and on both pages.
C4_Witness ==
  /\ ~apLoading
  /\ dpCar[1] # NoCar
  /\ \E a \in Range(priceAlerts) :
       /\ a \in Range(apAlerts)
       /\ a \in Range(phAlerts[1])
       /\ a.triggeredAt = NoTime
       /\ getAlertStatus(a, apCarDetails).triggered
       /\ ~isTriggered(a, currentPriceProp(dpCar[1]))

\* every stored alert with another id is stored unchanged after the step
OthersKept(id) ==
  \A a \in Range(priceAlerts) : a.id # id => a \in Range(priceAlerts')

\* C9: toggle(alertId) flips isActive of the stored alert with that id and
\* nothing else of it, delete(alertId) removes it, and in both cases every
\* other stored alert is still stored with identical field values.
C9_ToggleDeleteOnlyTarget ==
  [][ \A id \in 1..MaxClock :
        /\ (APToggleAlert(id) \/ PHToggleAlert(1, id)) =>
             /\ OthersKept(id)
             /\ \A a \in Range(priceAlerts) : a.id = id =>
                  [a EXCEPT !.isActive = ~a.isActive] \in Range(priceAlerts')
        /\ (APDeleteAlert(id) \/ PHDeleteAlert(1, id)) =>
             /\ OthersKept(id)
             /\ \A a \in Range(priceAlerts') : a.id # id ]_vars

\* C10: every write acts on the stored list as if the operations were applied
\* to it one after another: after toggle, delete, clear or create the stored
\* alerts are those of the operation applied to the list stored before it
\* (compared as sets: the order of the list is left open).
C10_WritesApplyToStoredList ==
  [][ /\ \A id \in 1..MaxClock :
           /\ (APToggleAlert(id) \/ PHToggleAlert(1, id)) =>
                Range(priceAlerts') = Range(toggleIn(priceAlerts, id))
           /\ (APDeleteAlert(id) \/ PHDeleteAlert(1, id)) =>
                Range(priceAlerts') = Range(deleteIn(priceAlerts, id))
      /\ APClearAllAlerts => priceAlerts' = <<>>
      /\ (\E text \in AlertInputs, condition \in Conditions :
             PHCreateAlert(1, text, condition)) =>
           Range(priceAlerts) \subseteq Range(priceAlerts') ]_vars

\* C23: no two alerts stored under 'price-alerts' have the same id.
C23_AlertIdsAreUnique ==
  \A i, j \in DOMAIN priceAlerts :
    i # j => priceAlerts[i].id # priceAlerts[j].id

\* how many times the alert is in the list
Count(s, a) == Cardinality({i \in DOMAIN s : s[i] = a})

\* C27: a createAlert whose text is not a number or not above 0 changes
\* neither the panel's list nor the stored list; any other createAlert adds
\* exactly one alert to both, with the page's car, the price entered, the
\* condition selected and isActive true, and keeps every alert stored before
\* (the order of the stored list is left open).
C27_CreateAlertValidates ==
  [][\A text \in AlertInputs, condition \in Conditions :
       PHCreateAlert(1, text, condition) =>
         IF parseFloat(text).nan \/ parseFloat(text).val <= 0
         THEN phAlerts' = phAlerts /\ priceAlerts' = priceAlerts
         ELSE /\ Len(phAlerts'[1]) = Len(phAlerts[1]) + 1
              /\ Len(priceAlerts') = Len(priceAlerts) + 1
              /\ \A a \in Range(priceAlerts) : Count(priceAlerts', a) >= Count(priceAlerts, a)
              /\ \E a \in Range(priceAlerts') :
                   /\ Count(priceAlerts', a) = Count(priceAlerts, a) + 1
                   /\ a = phAlerts'[1][Len(phAlerts'[1])]
                   /\ a.carId = dpCarId[1]
                   /\ a.targetPrice = parseFloat(text).val
                   /\ a.condition = condition
                   /\ a.isActive]_vars

(***************************************************************************)
(* Claims about the listing store and the list query.                      *)
(***************************************************************************)
\* C5: after every upsert the store holds at most one record per
\* external_id; an upsert of a stored external_id sets price, description,
\* images and last_seen to the new values, keeps first_seen and external_id,
\* keeps the number of stored listings and keeps every other record.
C5_UpsertByExternalId ==
  [][\A raw \in RawListings :
       UpsertListing(raw) =>
         /\ \A i, j \in DOMAIN store' :
              i # j => store'[i].external_id # store'[j].external_id
         /\ (\E k \in DOMAIN store : store[k].external_id = raw.external_id) =>
              /\ Len(store') = Len(store)
              /\ \A k \in DOMAIN store :
                   IF store[k].external_id = raw.external_id
                   THEN /\ store'[k].price = raw.price
                        /\ store'[k].description = raw.description
                        /\ store'[k].images = raw.images
                        /\ store'[k].last_seen = storeNow
                        /\ store'[k].first_seen = store[k].first_seen
                        /\ store'[k].external_id = store[k].external_id
                   ELSE store'[k] = store[k] ]_vars

\* two listings stored, one of them upserted again later with another price,
\* text and images
C5_Witness ==
  /\ Len(store) = 2
  /\ \E k \in DOMAIN store :
       /\ store[k].first_seen < store[k].last_seen
       /\ store[k].price = 12000
       /\ store[k].images = <<"u1">>

\* C15: a run that has started ends; a page fetch that fails ends it with
\* the store as it is and no further page fetched; a page that arrives ends
\* it exactly when the maximum record count is reached or the marketplace
\* reports no further page; a run that has ended fetches no page.
C15_RunTerminates ==
  /\ [](runState = "running" => <>(runState # "running"))
  /\ [][/\ IngestPageFailed =>
             /\ store' = store
             /\ runState' = "failed"
             /\ runPage' = runPage
        /\ \A records \in Pages, more \in BOOLEAN :
             IngestPage(records, more) =>
               /\ runPage' = runPage + 1
               /\ runFetched' <= runMax
               /\ runState' = "running" <=> (more /\ runFetched' < runMax)
        /\ (runState # "running" /\ runState' # "running") =>
             /\ runPage' = runPage
             /\ store' = store]_vars

\* a run has stopped at the failed fetch of its second page, and the record
\* of its first page is stored
C15_Witness ==
  /\ runState = "failed"
  /\ runPage = 2
  /\ runFetched = 1
  /\ runMax > 1
  /\ Len(store) = 1

\* the external ids of a sequence of records
IdsOf(records) == {records[k].external_id : k \in DOMAIN records}

\* C16: no step removes a stored external_id; a listing that the page of a
\* run does not hold keeps its record, last_seen included, and get returns
\* this record.
C16_ListingsAreNeverDeleted ==
  [][/\ IdsOf(store) \subseteq IdsOf(store')
     /\ \A records \in Pages, more \in BOOLEAN :
          IngestPage(records, more) =>
            \A k \in DOMAIN store :
              store[k].external_id \notin IdsOf(Taken(records)) =>
                GetListing(store', store[k].external_id) = store[k]]_vars

\* the last run has ended after one page with one new listing, later than
\* the run that stored the other listing
C16_Witness ==
  /\ runState = "done"
  /\ runPage = 2
  /\ runFetched = 1
  /\ Len(store) = 2
  /\ \E k, j \in DOMAIN store :
       /\ store[k].last_seen < storeNow
       /\ store[j].first_seen = storeNow
       /\ GetListing(store, store[k].external_id) = store[k]

\* the filters a request supplies that the listing does not satisfy
ViolatedFilters(l, p) ==
  {f \in {"min_price", "max_price", "min_year", "max_year", "min_mileage",
          "max_mileage", "department", "fuel_type", "seller_type"} :
     CASE f = "min_price" -> p.min_price # Null /\ (l.price = Null \/ l.price < p.min_price)
       [] f = "max_price" -> p.max_price # Null /\ (l.price = Null \/ l.price > p.max_price)
       [] f = "min_year" -> p.min_year # Null /\ (l.year = Null \/ l.year < p.min_year)
       [] f = "max_year" -> p.max_year # Null /\ (l.year = Null \/ l.year > p.max_year)
       [] f = "min_mileage" ->
            p.min_mileage # Null /\ (l.mileage = Null \/ l.mileage < p.min_mileage)
       [] f = "max_mileage" ->
            p.max_mileage # Null /\ (l.mileage = Null \/ l.mileage > p.max_mileage)
       [] f = "department" -> p.department # "" /\ l.department # p.department
       [] f = "fuel_type" ->
            p.fuel_type # <<>> /\ \A i \in DOMAIN p.fuel_type : p.fuel_type[i] # l.fuel_type
       [] OTHER ->
            p.seller_type # <<>> /\ \A i \in DOMAIN p.seller_type : p.seller_type[i] # l.seller_type}

\* C6: every record of a list response is a stored record that satisfies
\* every filter its request supplies, and the response's total is the number
\* of stored records satisfying all of them, whatever the request's skip and
\* limit.
C6_FiltersAreConjunctive ==
  [][\A k \in 1..MaxInFlight :
       HPFetchDone(k, "ok") =>
         /\ \A i \in DOMAIN hpCars' :
              /\ \E j \in DOMAIN store : store[j] = hpCars'[i]
              /\ ViolatedFilters(hpCars'[i], hpRequests[k]) = {}
         /\ hpTotalCars' =
              Cardinality({j \in DOMAIN store :
                             ViolatedFilters(store[j], hpRequests[k]) = {}}) ]_vars

\* the answer to a request with four filters supplied is displayed: some
\* stored listings match, others do not
C6_Witness ==
  /\ ~hpLoading
  /\ hpRequests = <<>>
  /\ hpFilters.maxPrice = 15000
  /\ hpFilters.department = "69"
  /\ hpFilters.minYear = 2010
  /\ hpFilters.fuelTypes = <<"diesel", "essence">>
  /\ Len(hpCars) > 0
  /\ hpTotalCars = Len(hpCars)
  /\ hpTotalCars < Len(store)

\* limits the slices are taken with
PageLimits == {1, 5, 12}

\* the slices of limit L for skip = 0, L, 2L, ..., (pages - 1) * L, concatenated
RECURSIVE SlicesUpTo(_, _, _, _)
SlicesUpTo(st, p, L, pages) ==
  IF pages = 0 THEN <<>>
  ELSE SlicesUpTo(st, p, L, pages - 1)
         \o ListCars(st, [p EXCEPT !.skip = (pages - 1) * L, !.limit = L]).cars

\* C7: for the store and the home page's filters, with N the total and any
\* limit L, every slice for skip = k * L has at most L records, the slices
\* concatenated by increasing skip hold no record twice and are the full
\* ordered result of N records, and nothing lies beyond the last slice;
\* every request the home page sends has skip = (currentPage - 1) * 12 and
\* limit = 12.
C7_PaginationPartitions ==
  /\ [](\A L \in PageLimits :
          \A p \in {fetchCarsParams(hpFilters, 1, hpSortBy)} :
            \A full \in {ListCars(store, [p EXCEPT !.skip = 0, !.limit = Len(store)])} :
              \A pages \in {(full.total + L - 1) \div L} :
                /\ full.total = Len(full.cars)
                /\ \A k \in 0..pages :
                     \A slice \in {ListCars(store, [p EXCEPT !.skip = k * L, !.limit = L])} :
                       /\ Len(slice.cars) <= L
                       /\ slice.total = full.total
                       /\ k = pages => slice.cars = <<>>
                /\ \A all \in {SlicesUpTo(store, p, L, pages)} :
                     /\ all = full.cars
                     /\ \A i, j \in DOMAIN all :
                          i # j => all[i].external_id # all[j].external_id)
  /\ [][HPEffects =>
          /\ hpRequests'[Len(hpRequests')].skip = (hpCurrentPage - 1) * 12
          /\ hpRequests'[Len(hpRequests')].limit = 12]_vars

\* the second page of a result of more than twelve listings is displayed
C7_Witness ==
  /\ ~hpLoading
  /\ hpTotalCars > 12
  /\ Len(hpCars) = hpTotalCars - 12
  /\ hpCars[1] = store[Len(store) - 12]

(***************************************************************************)
(* Claims about the home page and its filter panel.                        *)
(***************************************************************************)
\* the request carries the filters' values, a default value being absent
ClaimCarries(r, f) ==
  /\ r.min_price = (IF f.minPrice = 0 THEN Null ELSE f.minPrice)
  /\ r.max_price = (IF f.maxPrice = 100000 THEN Null ELSE f.maxPrice)
  /\ r.department = f.department
  /\ r.min_year = (IF f.minYear = 1990 THEN Null ELSE f.minYear)
  /\ r.max_year = (IF f.maxYear = CurrentYear THEN Null ELSE f.maxYear)
  /\ r.min_mileage = (IF f.minMileage = 0 THEN Null ELSE f.minMileage)
  /\ r.max_mileage = (IF f.maxMileage = 300000 THEN Null ELSE f.maxMileage)
  /\ r.fuel_type = f.fuelTypes
  /\ r.seller_type = f.sellerTypes

\* C11: when a control of the filter panel changes a filter dimension, the
\* home page's filters become the panel's values and currentPage becomes 1,
\* and the step that follows sends a list request carrying these filters
\* with skip = 0.
C11_FilterChangeRequeries ==
  [][/\ PanelStep =>
          /\ hpFilters' = cfFilters'
          /\ hpCurrentPage' = 1
          /\ hpRenderDue'
     /\ (hpRenderDue /\ hpCurrentPage = 1) =>
          /\ Len(hpRequests') = Len(hpRequests) + 1
          /\ hpRequests'[Len(hpRequests')].skip = 0
          /\ ClaimCarries(hpRequests'[Len(hpRequests')], hpFilters)]_vars

\* after two changes in the panel, the request for the panel's values is in
\* flight with skip = 0
C11_Witness ==
  /\ cfMoves = 2
  /\ ~hpRenderDue
  /\ cfFilters.maxPrice = 15000
  /\ cfFilters.fuelTypes = <<"diesel">>
  /\ hpFilters = cfFilters
  /\ hpCurrentPage = 1
  /\ \E k \in DOMAIN hpRequests :
       /\ hpRequests[k].skip = 0
       /\ hpRequests[k].max_price = 15000
       /\ hpRequests[k].fuel_type = <<"diesel">>

\* C17: without further input of the user the home page comes to rest:
\* either the user acts again and again, or from some point on no render of
\* Home runs the effects again (the panel's notification and with it a list
\* request).
C17_HomeComesToRest ==
  ([]<><<HomeUserStep>>_vars) \/ (<>[][~HPEffects]_vars)

\* C18: a click on page p makes p the current page, the request that
\* follows asks for the records from (p - 1) * 12 on, and the current page
\* changes only when the user selects a page or changes a filter.
C18_PageNavigationSticks ==
  [][/\ \A page \in 1..(totalPages(MaxListings) + 1) :
          HPSetPage(page) => hpCurrentPage' = page /\ hpRenderDue'
     /\ (hpRenderDue /\ HPEffects) =>
          hpRequests'[Len(hpRequests')].skip = (hpCurrentPage - 1) * CARS_PER_PAGE
     /\ hpCurrentPage' # hpCurrentPage =>
          \/ \E page \in 1..(totalPages(MaxListings) + 1) : HPSetPage(page)
          \/ PanelStep]_vars

\* C20: the response of a request issued before the request whose response
\* is displayed does not change the cars and the total displayed.
C20_LatestResponseWins ==
  [][\A k \in 1..MaxInFlight :
       (HPFetchDone(k, "ok") /\ k <= hpOlder) =>
          (hpCars' = hpCars /\ hpTotalCars' = hpTotalCars)]_vars

\* C24: the panel's ranges are well-formed in every state: the minimum is
\* at least the slider's lowest position, the maximum at most its highest,
\* and the two are at least one step apart (1000 for the price, 1 for the
\* year, 5000 for the mileage).
C24_RangesAreWellFormed ==
  /\ 0 <= cfFilters.minPrice
  /\ cfFilters.minPrice <= cfFilters.maxPrice - 1000
  /\ cfFilters.maxPrice <= 100000
  /\ 1990 <= cfFilters.minYear
  /\ cfFilters.minYear <= cfFilters.maxYear - 1
  /\ cfFilters.maxYear <= CurrentYear
  /\ 0 <= cfFilters.minMileage
  /\ cfFilters.minMileage <= cfFilters.maxMileage - 5000
  /\ cfFilters.maxMileage <= 300000

\* the max price slider was moved to 10000 and the min price slider then
\* to 15000: the minimum is held one step under the maximum
C24_Witness ==
  /\ cfMoves = 2
  /\ cfFilters.maxPrice = 10000
  /\ cfFilters.minPrice = 9000

\* the request carries the parameter exactly when the condition holds, and
\* then with the given value
SentIff(param, condition, value) ==
  IF condition THEN param = value ELSE param = Null

\* C25: the request a render sends carries each range parameter exactly when
\* the filter is off its default (min_price iff minPrice > 0, max_price iff
\* maxPrice < 100000, min_year iff minYear > 1990, max_year iff maxYear < the
\* current year, min_mileage iff minMileage > 0, max_mileage iff maxMileage <
\* 300000), department iff it is not empty, one fuel_type and seller_type
\* value per selected value, and always skip and limit.
C25_DefaultsAreSentAsAbsent ==
  [][HPEffects =>
       \A r \in {hpRequests'[Len(hpRequests')]} :
         /\ SentIff(r.min_price, hpFilters.minPrice > 0, hpFilters.minPrice)
         /\ SentIff(r.max_price, hpFilters.maxPrice < 100000, hpFilters.maxPrice)
         /\ SentIff(r.min_year, hpFilters.minYear > 1990, hpFilters.minYear)
         /\ SentIff(r.max_year, hpFilters.maxYear < CurrentYear, hpFilters.maxYear)
         /\ SentIff(r.min_mileage, hpFilters.minMileage > 0, hpFilters.minMileage)
         /\ SentIff(r.max_mileage, hpFilters.maxMileage < 300000, hpFilters.maxMileage)
         /\ r.department = hpFilters.department
         /\ r.fuel_type = hpFilters.fuelTypes
         /\ r.seller_type = hpFilters.sellerTypes
         /\ r.skip # Null /\ r.limit # Null]_vars

\* a request in flight for filters of which some are at their default and
\* some are not
C25_Witness ==
  /\ hpFilters.minPrice = 0 /\ hpFilters.maxPrice = 15000
  /\ hpFilters.minYear = 2010 /\ hpFilters.maxYear = CurrentYear
  /\ hpFilters.department = ""
  /\ hpFilters.fuelTypes = <<"diesel", "essence">> /\ hpFilters.sellerTypes = <<>>
  /\ \E k \in DOMAIN hpRequests :
       /\ hpRequests[k].min_price = Null /\ hpRequests[k].max_price = 15000
       /\ hpRequests[k].min_year = 2010 /\ hpRequests[k].max_year = Null
       /\ hpRequests[k].department = ""
       /\ hpRequests[k].fuel_type = <<"diesel", "essence">>
       /\ hpRequests[k].seller_type = <<>>

(***************************************************************************)
(* Claims about the detail page.                                           *)
(***************************************************************************)
\* C12: when fetchCar's request returns a non-2xx response or fails, the
\* detail page ends with loading = false and car = null; a car is only ever
\* held after a request that returned a listing, and loading is false after
\* every completed request.
C12_NotFoundIsExplicit ==
  [][\A t \in Tabs :
       /\ DPFetchCar(t, NoCar) => (~dpLoading'[t] /\ dpCar'[t] = NoCar)
       /\ (dpCar'[t] # NoCar /\ dpCar'[t] # dpCar[t]) =>
            \E resp \in Prices : DPFetchCar(t, resp)
       /\ (\E resp \in Prices \cup {NoCar} : DPFetchCar(t, resp)) => ~dpLoading'[t]]_vars

\* the page of tab 1 shows 'not found' for car 2 while tab 2 shows car 1
C12_Witness ==
  /\ dpCarId[1] = 2
  /\ ~dpLoading[1]
  /\ dpCar[1] = NoCar
  /\ dpCar[2] # NoCar

(***************************************************************************)
(* Claims about the Claude analysis and the AI features panel.             *)
(***************************************************************************)
\* the requests of the detail page's analysis handlers in flight
AnalysisTraffic == <<dpAnalyzeRequests, aiFeatureRequests, aiFullRequests, aiPolls>>

\* C13: a failed analyze request, or a failed analysis request of a feature,
\* is the end of that request: nothing is requested in its place, the
\* analysis, the features' data and the active feature stay as they were,
\* and the loading flag of the request is false afterwards.
C13_AnalysisFailureIsFinal ==
  [][/\ DPAnalyzeDone(FALSE) =>
          /\ dpAnalysis' = dpAnalysis
          /\ ~dpAnalysisLoading'
          /\ AnalysisTraffic' = <<dpAnalyzeRequests - 1, aiFeatureRequests,
                                  aiFullRequests, aiPolls>>
     /\ \A f \in FeatureIds : AIFeatureDone(f, FALSE) =>
          /\ aiFeaturesData' = aiFeaturesData
          /\ aiActiveFeature' = aiActiveFeature
          /\ f \notin aiLoadingFeatures'
          /\ AnalysisTraffic' = <<dpAnalyzeRequests,
                                  [aiFeatureRequests EXCEPT ![f] = @ - 1],
                                  aiFullRequests, aiPolls>>]_vars

\* the analysis of the second feature has failed while the first feature is
\* shown with its data and an analysis is held
C13_Witness ==
  /\ aiConsole = FeatureList[2]
  /\ aiFeaturesData[FeatureList[2]] = NoData
  /\ FeatureList[2] \notin aiLoadingFeatures
  /\ aiFeatureRequests[FeatureList[2]] = 0
  /\ aiFeaturesData[FeatureList[1]] = AnalysisData
  /\ aiActiveFeature = FeatureList[1]
  /\ dpAnalysis = AnalysisData

\* the k-th insights loop moves on from the request it has in flight
PollAdvances(k) ==
  IF aiPolls[k] < Len(FeatureList)
  THEN aiPolls' = [aiPolls EXCEPT ![k] = @ + 1]
  ELSE aiPolls' = RemoveAt(aiPolls, k)

\* C14: a full-analysis dispatch that succeeds starts one insights loop, which
\* requests the insights of every feature of the list once, in the list's
\* order, one request at a time; a failed insights request leaves the data
\* as it was and the loop goes on with the next feature; a dispatch that
\* fails starts no loop.
C14_FullAnalysisPolls ==
  [][/\ AIFullDone(TRUE) => aiPolls' = Append(aiPolls, 0)
     /\ AIFullDone(FALSE) => aiPolls' = aiPolls
     /\ \A k \in DOMAIN aiPolls :
          /\ AIPollStart(k) => aiPolls' = [aiPolls EXCEPT ![k] = 1]
          /\ AIPollDone(k, FALSE) => PollAdvances(k) /\ aiFeaturesData' = aiFeaturesData
          /\ AIPollDone(k, TRUE) =>
               /\ PollAdvances(k)
               /\ aiFeaturesData' =
                    [aiFeaturesData EXCEPT ![FeatureList[aiPolls[k]]] = InsightsData]
     /\ aiPolls' # aiPolls =>
          \/ aiPolls' = Append(aiPolls, 0)
          \/ \E k \in DOMAIN aiPolls : PollAdvances(k)]_vars

\* the loop has the last feature's insights request in flight, after the
\* first feature's insights arrived and the second feature's request failed
C14_Witness ==
  /\ aiPolls = <<Len(FeatureList)>>
  /\ aiFeaturesData[FeatureList[1]] = InsightsData
  /\ aiFeaturesData[FeatureList[2]] = NoData

\* C21: while an analysis request of a feature is in flight the feature's
\* loading flag is true, so no feature has two analysis requests in flight.
C21_OneRequestPerFeature ==
  \A f \in FeatureIds :
    /\ aiFeatureRequests[f] <= 1
    /\ aiFeatureRequests[f] > 0 => f \in aiLoadingFeatures

(***************************************************************************)
(* Claims about the scraper control.                                       *)
(***************************************************************************)
\* C22: a run that has started is reported as finished (scraperRunning is
\* false again and the run button is enabled), whatever the outcome of the
\* trigger request, and the status polling that was started stops.
C22_RunIsReportedFinished ==
  /\ scScraperRunning ~> ~(scLoading \/ scScraperRunning)
  /\ scPolling ~> ~scPolling

(***************************************************************************)
(* Claims about the favorites.                                             *)
(***************************************************************************)
\* C2: from every state a detail page with its favorite button can be in,
\* invoking toggleFavorite twice in a row for the page's car id leaves the
\* id in the stored list iff it was in it before the first call.
C2_DoubleToggleRestoresMembership ==
  \A t \in Tabs :
    dpCar[t] # NoCar =>
      LET first == toggleFavorite(carFavorites, dpIsFavorite[t], dpCarId[t])
          second == toggleFavorite(first.updatedFavorites, first.isFavorite, dpCarId[t])
      IN (dpCarId[t] \in Range(second.updatedFavorites))
           <=> (dpCarId[t] \in Range(carFavorites))

\* C3: the list stored under 'car-favorites' never holds an id twice.
C3_FavoritesHaveNoDuplicates ==
  \A i, j \in DOMAIN carFavorites :
    i # j => carFavorites[i] # carFavorites[j]

\* the position in ids of the k-th id whose fetch was ok
KthOk(ok, k) ==
  CHOOSE i \in DOMAIN ok :
    ok[i] /\ Cardinality({j \in 1..i : ok[j]}) = k

\* C8: when a fetchFavoriteCars call gets past its join, the displayed cars
\* are exactly the ids of the call whose fetch was ok, in the order of the
\* favorites list, whatever the other fetches of the call did, and loading
\* is false.
C8_JoinShowsTheFetchedFavorites ==
  [][ \A b \in DOMAIN fpBatches :
        \A ok \in [DOMAIN fpBatches[b] -> BOOLEAN] :
          FPFetchDone(b, ok) =>
            /\ Len(fpFavoriteCars') = Cardinality({i \in DOMAIN ok : ok[i]})
            /\ \A k \in DOMAIN fpFavoriteCars' :
                 fpFavoriteCars'[k] = fpBatches[b][KthOk(ok, k)]
            /\ fpLoading' = FALSE ]_vars

\* C8 witness: with favorites <<1, 2>> and no call in flight, only car 2 is
\* displayed and loading is false: the call for <<1, 2>> has joined with the
\* fetch of 1 failed and the fetch of 2 ok.
C8_Witness ==
  /\ fpFavorites = <<1, 2>>
  /\ fpBatches = <<>>
  /\ fpFavoriteCars = <<2>>
  /\ ~fpLoading

\* C19: while no fetchFavoriteCars call is in flight, every car the
\* favorites page displays is in the page's favorites list, so a call
\* started before a removal or a clearing never brings a car back.
C19_DisplayedAreFavorites ==
  (fpBatches = <<>> /\ ~fpLoading) => Range(fpFavoriteCars) \subseteq Range(fpFavorites)

\* the last place of the id in the list
LastIndex(s, x) == CHOOSE i \in DOMAIN s : s[i] = x /\ \A j \in DOMAIN s : s[j] = x => j <= i

\* C26: with the sort 'date_added' the favorites page displays the cars from
\* the most recently added favorite to the least recently added one (an
\* addition puts the id at the end of the favorites list).
C26_MostRecentFirst ==
  \A d \in {sortedAndFilteredCars(fpFavoriteCars)} :
    \A i, j \in DOMAIN d :
      (i < j /\ d[i] \in Range(fpFavorites) /\ d[j] \in Range(fpFavorites)) =>
         LastIndex(fpFavorites, d[i]) > LastIndex(fpFavorites, d[j])

====
